---- MODULE Spec2Model ----
(***************************************************************************)
(* Model of the text-rewriting scripts of addons/evm:                      *)
(*   fix_missing_abi.py       add_missing_abi      (a file is a sequence   *)
(*                                                  of lines)              *)
(*   fix_all_runbooks.py      fix_runbook_file     (a file is a sequence   *)
(*                                                  of tokens)             *)
(*   convert_tests.py, convert_tests_v2.py, fix_compilation_errors.py,     *)
(*   fix_remaining_tests.py   the four test-migration drivers over one     *)
(*                            directory of .rs files                       *)
(* Every script reads a file whole, transforms it in memory and writes it  *)
(* back; one action models one call of a per-file function or one run of   *)
(* a driver.                                                               *)
(***************************************************************************)
EXTENDS Integers, Sequences, FiniteSets, TLC

VARIABLES
    \* ---- fix_missing_abi.py ----
    lines,      \* the .tx file: the list f.readlines() returns
    abiPrev,    \* the file as it was before the last call of add_missing_abi
    abiRet,     \* return value of the last call
    abiWrote,   \* whether the last call opened the file for writing
    abiCalls,   \* number of calls made so far
    scanLog     \* per header the last call handled: block_start, block_end, the
                \* anchor index j it inserted after (0: none), and the list at that time

VARIABLES
    \* ---- fix_all_runbooks.py ----
    content,    \* the runbook file: the text f.read() returns, as tokens
    rbPrev,     \* the file as it was before the last call of fix_runbook_file
    rbRet,      \* return value of the last call
    rbWrote,    \* whether the last call opened the file for writing
    rbCalls,    \* number of calls made so far
    subLog      \* per re.sub over the action blocks of one type in the last call:
                \* the action type, the content before and the content after

VARIABLES
    \* ---- convert_tests.py, convert_tests_v2.py, fix_compilation_errors.py,
    \*      fix_remaining_tests.py ----
    files,         \* the integration test directory: file name -> content (tokens)
    tPrev,         \* the directory as it was before the last driver run
    tWrote,        \* names of the files the last run opened for writing
    outcome,       \* name -> the status line the last run printed for the file
    lastDriver,    \* the driver that ran last ("none" before the first run)
    summary,       \* the counters the last run printed in its summary line
    transformedBy, \* name -> drivers that changed and wrote the file in runs
                   \* before the last one
    runs           \* number of driver runs so far

abiVars  == <<lines, abiPrev, abiRet, abiWrote, abiCalls, scanLog>>
rbVars   == <<content, rbPrev, rbRet, rbWrote, rbCalls, subLog>>
testVars == <<files, tPrev, tWrote, outcome, lastDriver, summary, transformedBy, runs>>

vars == <<abiVars, rbVars, testVars>>

----------------------------------------------------------------------------
(* Bounds of the model *)
MaxLines == 6      \* longest file of structural lines
MaxBody  == 4      \* longest body of a single call_contract block with markers
MaxCalls == 2      \* calls of a per-file function on one file
MaxActions == 2    \* action blocks in one runbook
MaxRuns == 2       \* driver runs over the test directory
MaxFiles == 3      \* files in the test directory

BoundedSeq(S, n) == UNION {[1..k -> S] : k \in 0..n}

----------------------------------------------------------------------------
(* fix_missing_abi.py : lines.                                             *)
(* A line is what the code reads of it: the substrings it tests for, the   *)
(* number of '{' and '}' it counts, and the width of its leading blanks.  *)

Line(txt, hdr, ob, cb, addr, abi, ind, marks) ==
    [txt |-> txt, hdr |-> hdr, ob |-> ob, cb |-> cb, addr |-> addr,
     abi |-> abi, ind |-> ind, marks |-> marks]

\* action "x" "evm::call_contract" {
HdrBrace == Line("action_call_contract_{", TRUE, 1, 0, FALSE, FALSE, 0, {})
\* action "x" "evm::call_contract"        (opening brace on a later line)
HdrBare  == Line("action_call_contract", TRUE, 0, 0, FALSE, FALSE, 0, {})
OpenLn   == Line("{", FALSE, 1, 0, FALSE, FALSE, 0, {})
CloseLn  == Line("}", FALSE, 0, 1, FALSE, FALSE, 0, {})
\* contract_address = "0xABC"
AddrLn(n) == Line("contract_address", FALSE, 0, 0, TRUE, FALSE, n, {})
\* contract_address = action.deploy.contract_address
AddrDeployLn(n) ==
    Line("contract_address_deploy", FALSE, 0, 0, TRUE, FALSE, n, {"action.deploy"})
\* contract_abi = variable.abi            (a block that already has the field)
AbiOldLn == Line("contract_abi_present", FALSE, 0, 0, FALSE, TRUE, 2, {})
FnLn(m)  == Line("function_name", FALSE, 0, 0, FALSE, FALSE, 2, {m})
PlainLn  == Line("signer", FALSE, 0, 0, FALSE, FALSE, 2, {})

(* The lines add_missing_abi builds, with the braces and markers their     *)
(* literal text holds.                                                     *)
AbiGenericLn(n)  == Line("abi_generic", FALSE, 0, 0, FALSE, TRUE, n, {"action.deploy"})
AbiGetValueLn(n) == Line("abi_getValue", FALSE, 2, 2, FALSE, TRUE, n, {"getValue"})
AbiSetValueLn(n) == Line("abi_setValue", FALSE, 2, 2, FALSE, TRUE, n, {"setValue"})
AbiTransferLn(n) == Line("abi_transfer", FALSE, 4, 4, FALSE, TRUE, n, {"transfer"})
AbiDeployLn(n)   == Line("abi_deploy", FALSE, 0, 0, FALSE, TRUE, n, {"action.deploy"})

\* 'marker' in block_text, block_text = ''.join(lines[from .. to])
TextHas(ls, from, to, m) == \E k \in from..to : m \in ls[k].marks
TextHasAbi(ls, from, to) == \E k \in from..to : ls[k].abi

IsCallContractHeader(l) == l.hdr

(* "Find where the block starts": the first loop, from the header line,    *)
(* returns brace_count as the loop leaves it.                              *)
RECURSIVE FindBlockStart(_, _, _)
FindBlockStart(ls, j, bc) ==
    IF j > Len(ls) THEN bc
    ELSE IF ls[j].ob > 0
         THEN LET b == bc + ls[j].ob - ls[j].cb
              IN  IF b > 0 THEN b ELSE FindBlockStart(ls, j + 1, b)
         ELSE FindBlockStart(ls, j + 1, bc)

(* "Find where the block ends": the second loop, from the line after the   *)
(* header, returns block_end (dflt = the header, when no line brings the   *)
(* count to zero).                                                         *)
RECURSIVE FindBlockEnd(_, _, _, _)
FindBlockEnd(ls, j, bc, dflt) ==
    IF j > Len(ls) THEN dflt
    ELSE LET b == bc + ls[j].ob - ls[j].cb
         IN  IF b = 0 THEN j ELSE FindBlockEnd(ls, j + 1, b, dflt)

BlockEndOf(ls, i) == FindBlockEnd(ls, i + 1, FindBlockStart(ls, i, 0), i)

(* for j in range(block_start + 1, block_end): the first line holding      *)
(* contract_address, 0 when there is none.                                 *)
RECURSIVE FirstAnchor(_, _, _)
FirstAnchor(ls, j, e) ==
    IF j >= e THEN 0
    ELSE IF ls[j].addr THEN j ELSE FirstAnchor(ls, j + 1, e)

\* The chain with setValue tested before getValue.
ChooseAbiLineSetValueFirst(ls, s, e, n) ==
    IF TextHas(ls, s, e, "setValue") THEN AbiSetValueLn(n)
    ELSE IF TextHas(ls, s, e, "getValue") THEN AbiGetValueLn(n)
    ELSE IF TextHas(ls, s, e, "transfer") THEN AbiTransferLn(n)
    ELSE IF TextHas(ls, s, e, "action.deploy") THEN AbiDeployLn(n)
    ELSE AbiGenericLn(n)

(* The if/elif chain that picks abi_line.                                  *)
ChooseAbiLine(ls, s, e, n) ==
    IF TextHas(ls, s, e, "getValue") THEN AbiGetValueLn(n)
    ELSE IF TextHas(ls, s, e, "setValue") THEN AbiSetValueLn(n)
    ELSE IF TextHas(ls, s, e, "transfer") THEN AbiTransferLn(n)
    ELSE IF TextHas(ls, s, e, "action.deploy") THEN AbiDeployLn(n)
    ELSE AbiGenericLn(n)

\* lines.insert(p, l) with p counted from 1
InsertAt(ls, p, l) == SubSeq(ls, 1, p - 1) \o <<l>> \o SubSeq(ls, p, Len(ls))

\* i = j + 2 and then the loop's own i += 1
NextIndexAfterInsert(j) == j + 3

(* The while loop of add_missing_abi from index i on.                      *)
RECURSIVE ScanFrom(_, _, _, _)
ScanFrom(ls, i, modified, log) ==
    IF i > Len(ls) THEN [lines |-> ls, modified |-> modified, log |-> log]
    ELSE IF ~IsCallContractHeader(ls[i]) THEN ScanFrom(ls, i + 1, modified, log)
    ELSE LET e      == BlockEndOf(ls, i)
             anchor == IF TextHasAbi(ls, i, e) THEN 0 ELSE FirstAnchor(ls, i + 1, e)
             log2   == Append(log, [start |-> i, end |-> e, anchor |-> anchor, at |-> ls])
         IN  IF anchor = 0
             THEN ScanFrom(ls, i + 1, modified, log2)
             ELSE ScanFrom(InsertAt(ls, anchor + 1,
                                    ChooseAbiLine(ls, i, e, ls[anchor].ind)),
                           NextIndexAfterInsert(anchor), TRUE, log2)

add_missing_abi(ls) == ScanFrom(ls, 1, FALSE, <<>>)

StructLines == {HdrBrace, HdrBare, OpenLn, CloseLn, AddrLn(2)}
BodyLines   == {AddrLn(2), AddrDeployLn(4), AbiOldLn, PlainLn,
                FnLn("getValue"), FnLn("setValue"), FnLn("transfer")}
InputFiles  ==
    BoundedSeq(StructLines, MaxLines)
    \cup {<<HdrBrace>> \o b \o <<CloseLn>> : b \in BoundedSeq(BodyLines, MaxBody)}

AbiStart(f) ==
    /\ lines = f
    /\ abiPrev = f
    /\ abiRet = FALSE
    /\ abiWrote = FALSE
    /\ abiCalls = 0
    /\ scanLog = <<>>

AddMissingAbi ==
    /\ abiCalls < MaxCalls
    /\ LET r == add_missing_abi(lines)
       IN  /\ lines' = r.lines
           /\ abiRet' = r.modified
           /\ abiWrote' = r.modified
           /\ scanLog' = r.log
    /\ abiPrev' = lines
    /\ abiCalls' = abiCalls + 1
    /\ UNCHANGED <<rbVars, testVars>>

----------------------------------------------------------------------------
(* fix_all_runbooks.py : tokens.                                           *)
(* The runbook text is a sequence of tokens, each the unit one of the      *)
(* script's patterns matches: an action header, a brace, `name =`, a       *)
(* value, a signer declaration. Blanks between tokens are what \s* eats.   *)

Tok(k, a, b) == [k |-> k, a |-> a, b |-> b]
Hdr(ns, ty)  == Tok("hdr", ns, ty)        \* action "name" "ns::ty"
LB           == Tok("{", "", "")
RB           == Tok("}", "", "")
Field(name)  == Tok("field", name, "")    \* name =
Val          == Tok("val", "", "")        \* a value no pattern matches
QNum(q)      == Tok("qnum", q, "digits")       \* "12345" or '12345'
QNumU(q)     == Tok("qnum", q, "digits_digits") \* "1_000_000"
Num(u)       == Tok("num", "", u)         \* the same digits without quotes
Signer(q, t) == Tok("signer", q, t)       \* signer "name" "evm::t", quoted with q
\* '# from field removed - using signer\n    # ' : the text the from rule puts
\* before the `from =` it writes back
FromRemoved  == Tok("text", "# from field removed - using signer", "# ")

(* FIELD_REPLACEMENTS: per action type the rules in table order, each the  *)
(* field name \bname\s*= matches and the tokens of its replacement.        *)
Rule(name, rep) == [pat |-> name, rep |-> rep]
CallRules ==
    << Rule("contract", <<Field("contract_address")>>),
       Rule("abi", <<Field("contract_abi")>>),
       Rule("function", <<Field("function_name")>>),
       Rule("function_arguments", <<Field("function_args")>>) >>
FIELD_REPLACEMENTS ==
    [ty \in {"send_eth", "call_contract", "deploy_contract", "eth_call"} |->
        CASE ty = "send_eth" ->
                << Rule("to", <<Field("recipient_address")>>),
                   Rule("value", <<Field("amount")>>),
                   Rule("from", <<FromRemoved, Field("from")>>) >>
          [] ty = "call_contract" -> CallRules
          [] ty = "deploy_contract" ->
                << Rule("abi", <<Field("contract_abi")>>),
                   Rule("bytecode", <<Field("contract_bytecode")>>),
                   Rule("constructor_arguments", <<Field("constructor_args")>>) >>
          [] ty = "eth_call" -> CallRules]

\* re.sub(pattern, replacement, block) for one rule: every `name =` of the block
RECURSIVE SubField(_, _)
SubField(toks, rule) ==
    IF toks = <<>> THEN <<>>
    ELSE (IF Head(toks) = Field(rule.pat) THEN rule.rep ELSE <<Head(toks)>>)
         \o SubField(Tail(toks), rule)

\* replace_in_block: the rules of the action type, in table order, each on the
\* output of the one before
RECURSIVE ApplyRules(_, _, _)
ApplyRules(block, rules, k) ==
    IF k > Len(rules) THEN block
    ELSE ApplyRules(SubField(block, rules[k]), rules, k + 1)

replace_in_block(block, ty) == ApplyRules(block, FIELD_REPLACEMENTS[ty], 1)

\* [^}]*\} : the index of the first '}' at or after i, 0 when there is none
RECURSIVE FirstClose(_, _)
FirstClose(toks, i) ==
    IF i > Len(toks) THEN 0
    ELSE IF toks[i] = RB THEN i ELSE FirstClose(toks, i + 1)

\* The block pattern with the action type left out of it: any action of ns.
HeaderMatchesAnyType(tok, ns, ty) == tok.k = "hdr" /\ tok.a = ns

\* action\s+"[^"]+"\s+"ns::ty" : whether the header at i is one the block pattern
\* built for (ns, ty) starts at
HeaderMatches(tok, ns, ty) == tok = Hdr(ns, ty)

\* re.sub(action_block_pattern, replace_in_block, content, flags=re.DOTALL):
\* leftmost non-overlapping matches header, '{', anything but '}', '}'
RECURSIVE SubBlocks(_, _, _, _)
SubBlocks(toks, i, ns, ty) ==
    IF i > Len(toks) THEN <<>>
    ELSE LET c == IF /\ HeaderMatches(toks[i], ns, ty)
                     /\ i + 1 <= Len(toks)
                     /\ toks[i + 1] = LB
                  THEN FirstClose(toks, i + 2) ELSE 0
         IN  IF c # 0
             THEN replace_in_block(SubSeq(toks, i, c), ty) \o SubBlocks(toks, c + 1, ns, ty)
             ELSE <<toks[i]>> \o SubBlocks(toks, i + 1, ns, ty)

\* re.findall(action_pattern, content): one (namespace, action_type) per header
FindActions(toks) == SelectSeq(toks, LAMBDA t : t.k = "hdr")

\* for namespace, action_type in actions: ...
RECURSIVE ProcessActions(_, _, _, _)
ProcessActions(toks, actions, k, log) ==
    IF k > Len(actions) THEN [content |-> toks, log |-> log]
    ELSE IF actions[k].a # "evm" \/ actions[k].b \notin DOMAIN FIELD_REPLACEMENTS
         THEN ProcessActions(toks, actions, k + 1, log)
         ELSE LET out == SubBlocks(toks, 1, actions[k].a, actions[k].b)
              IN  ProcessActions(out, actions, k + 1,
                      Append(log, [ty |-> actions[k].b, before |-> toks, after |-> out]))

\* SIGNER_REPLACEMENTS: evm::private_key becomes evm::secret_key, for either quote
FixSigner(t) ==
    IF t.k = "signer" /\ t.b = "private_key" THEN Signer(t.a, "secret_key") ELSE t

\* (\w+\s*=\s*)["'](\d+)["'] -> \1\2 : a quoted run of digits right after `name =`
\* loses its quotes (under = FALSE); with (\d+(?:_\d+)*) also digits with
\* underscores (under = TRUE)
RECURSIVE Unquote(_, _, _)
Unquote(toks, i, under) ==
    IF i > Len(toks) THEN <<>>
    ELSE LET t == toks[i]
             hit == /\ t.k = "qnum"
                    /\ i > 1
                    /\ toks[i - 1].k = "field"
                    /\ (under \/ t.b = "digits")
         IN  <<IF hit THEN Num(t.b) ELSE t>> \o Unquote(toks, i + 1, under)

\* for old_pattern, new_value in SIGNER_REPLACEMENTS: re.sub over the content
FixSigners(toks) == [i \in 1..Len(toks) |-> FixSigner(toks[i])]

\* fix_runbook_file up to the comparison with original_content
fix_runbook_content(toks) ==
    LET p == ProcessActions(toks, FindActions(toks), 1, <<>>)
        s == FixSigners(p.content)
        n == Unquote(Unquote(s, 1, FALSE), 1, TRUE)
    IN  [content |-> n, log |-> p.log]

(* Input runbooks: optional leading declarations, then up to MaxActions       *)
(* well-formed action blocks, each a header, '{', fields with values, '}':    *)
(* an evm action with any of the fields below, at least one, or a send_eth    *)
(* action of another namespace with all of them.                              *)
InputHeaders == {Hdr("evm", "send_eth"), Hdr("evm", "call_contract"),
                 Hdr("evm", "deploy_contract")}
InputFields  == <<"to", "from", "abi">>
RECURSIVE RenderFields(_, _)
RenderFields(fs, k) ==
    IF k > Len(InputFields) THEN <<>>
    ELSE (IF InputFields[k] \in fs THEN <<Field(InputFields[k]), Val>> ELSE <<>>)
         \o RenderFields(fs, k + 1)
AllFields    == {InputFields[k] : k \in 1..Len(InputFields)}
InputBlocks  ==
    {<<h, LB>> \o RenderFields(fs, 1) \o <<RB>> :
        h \in InputHeaders, fs \in SUBSET AllFields \ {{}}}
    \cup {<<Hdr("std", "send_eth"), LB>> \o RenderFields(AllFields, 1) \o <<RB>>}
InputPrefixes ==
    {<<>>, <<Signer("dq", "private_key"), Field("chain_id"), QNum("dq")>>}
RECURSIVE Flatten(_)
Flatten(ss) == IF ss = <<>> THEN <<>> ELSE Head(ss) \o Flatten(Tail(ss))
InputRunbooks ==
    {p \o Flatten(bs) : p \in InputPrefixes, bs \in BoundedSeq(InputBlocks, MaxActions)}

RbStart(f) ==
    /\ content = f
    /\ rbPrev = f
    /\ rbRet = FALSE
    /\ rbWrote = FALSE
    /\ rbCalls = 0
    /\ subLog = <<>>

FixRunbookFile ==
    /\ rbCalls < MaxCalls
    /\ LET r == fix_runbook_content(content)
       IN  /\ content' = r.content
           /\ rbRet' = (r.content # content)
           /\ rbWrote' = (r.content # content)
           /\ subLog' = r.log
    /\ rbPrev' = content
    /\ rbCalls' = rbCalls + 1
    /\ UNCHANGED <<abiVars, testVars>>

----------------------------------------------------------------------------
(* The test-migration scripts : tokens.                                    *)
(* The content of a .rs file is a sequence of tokens, each a piece of Rust *)
(* text that the scripts' patterns match whole; blanks between tokens are  *)
(* what \s* and \s+ eat. The name of a token is the text it stands for.    *)

\* 'sub' in content: the tokens whose text holds the substring
Mentions(sub) ==
    CASE sub = "MigrationHelper" -> {"use_MigrationHelper", "use_MigrationHelper_TestResult",
                                     "MigrationHelper::from_fixture"}
      [] sub = ".execute()" -> {".execute()", "harness_nl.execute()_nl.await"}
      [] sub = ".await" -> {".await", "harness_nl.execute()_nl.await"}
      [] sub = "use tokio;" -> {"use_tokio"}
      [] sub = "#[tokio::test]" -> {"#[tokio::test]_async_fn"}
      [] sub = "#[test]" -> {"#[test]_fn"}
      [] sub = "Value" -> {"Value::integer", "use_Value"}
      [] sub = "txtx_addon_kit::types::types::Value" -> {"use_Value"}
      [] sub = "assert!(result." -> {"assert!(result.success)"}
      [] sub = "result.success" -> {"assert!(result.success)"}
      [] sub = "let harness = " -> {"let_harness="}
      [] sub = "use crate::tests::fixture_builder" ->
            {"use_MigrationHelper", "use_MigrationHelper_TestResult", "use_FixtureBuilder"}
      [] sub = "ProjectTestHarness::new_with_content" ->
            {"ProjectTestHarness::new_with_content"}
      [] sub = "use " -> {"use_ProjectTestHarness", "use_test_harness_other",
                          "use_MigrationHelper", "use_MigrationHelper_TestResult",
                          "use_FixtureBuilder", "use_PathBuf", "use_tokio", "use_Value"}
      [] sub = "}" -> {"}", "use_MigrationHelper_TestResult", "use_FixtureBuilder",
                       "use_test_harness_other"}

InText(c, sub) == \E i \in 1..Len(c) : c[i] \in Mentions(sub)

\* whether the tokens of pat stand at position i of c
MatchAt(c, i, pat) ==
    /\ i + Len(pat) - 1 <= Len(c)
    /\ \A k \in 1..Len(pat) : c[i + k - 1] = pat[k]

HasSeq(c, pat) == \E i \in 1..Len(c) : MatchAt(c, i, pat)

\* re.sub(pattern, replacement, content) for a pattern that is a fixed run of
\* tokens: every leftmost non-overlapping occurrence is replaced
RECURSIVE ReSub(_, _, _, _)
ReSub(c, i, pat, rep) ==
    IF i > Len(c) THEN <<>>
    ELSE IF MatchAt(c, i, pat) THEN rep \o ReSub(c, i + Len(pat), pat, rep)
    ELSE <<c[i]>> \o ReSub(c, i + 1, pat, rep)

Sub(c, pat, rep) == ReSub(c, 1, pat, rep)

\* the list with anvil_harness.rs left out
IsModRsOnly(name) == name = "mod.rs"

\* the filenames both converters and fix_compilation_errors.main leave alone
IsDenylisted(name) == name \in {"mod.rs", "anvil_harness.rs"}

Result(c, wrote, ret, line) ==
    [content |-> c, wrote |-> wrote, ret |-> ret, line |-> line]

(* ---- convert_tests.py ---- *)

\* "Replace imports"
V1ReplaceImports(c) ==
    Sub(c, <<"use_ProjectTestHarness">>, <<"use_MigrationHelper_TestResult">>)

\* "Add tokio import if not present"
V1AddTokio(c) ==
    IF ~InText(c, "use tokio;") /\ ~InText(c, "#[tokio::test]")
    THEN Sub(c, <<"use_PathBuf">>, <<"use_PathBuf", "use_tokio">>)
    ELSE c

\* "Convert test functions to async"
V1AsyncTests(c) == Sub(c, <<"#[test]_fn">>, <<"#[tokio::test]_async_fn">>)

\* "Convert ProjectTestHarness::from_fixture pattern"
V1FromFixture(c) ==
    Sub(c, <<"let_harness=", "ProjectTestHarness::from_fixture">>,
           <<"let_result=", "MigrationHelper::from_fixture">>)

\* "Convert .with_input chaining"
V1WithInput(c) ==
    Sub(c, <<".with_input()", ";">>,
           <<".with_input()", ".execute()", ".await", ".expect()", ";">>)

\* "Convert execute_runbook calls"
V1DropExecuteRunbook(c) ==
    Sub(c, <<"let_result=", "harness.execute_runbook()", ".expect()", ";">>, <<>>)

\* "Remove duplicate result declarations"
V1DropDuplicateResult(c) == Sub(c, <<"let_result=", "result_">>, <<>>)

\* "Handle special cases where execute is called separately"
V1SeparateExecute(c) ==
    Sub(c, <<"harness.execute_runbook()">>, <<"result", ".execute()", ".await">>)

\* the substitutions of convert_test_file, in the order of the source
ConvertV1Body(c) ==
    V1SeparateExecute(V1DropDuplicateResult(V1DropExecuteRunbook(V1WithInput(V1FromFixture(V1AsyncTests(V1AddTokio(V1ReplaceImports(c))))))))

\* convert_test_file of convert_tests.py: the two skips, then the substitutions,
\* then the write
ConvertV1(name, c) ==
    IF InText(c, "MigrationHelper") THEN Result(c, FALSE, FALSE, "already_converted")
    ELSE IF IsDenylisted(name) THEN Result(c, FALSE, FALSE, "skipping")
    ELSE Result(ConvertV1Body(c), TRUE, TRUE, "converted")

(* ---- convert_tests_v2.py ---- *)

\* re.search(r'(mod \w+ \{[^}]*?)(use )'): the position of the first `use ` that
\* follows a `mod x {` with no '}' between, taken from the leftmost such mod; 0
\* when there is none
FirstUseInMod(c) ==
    LET reach(m) == {u \in (m + 1)..Len(c) :
                        /\ c[u] \in Mentions("use ")
                        /\ \A k \in (m + 1)..(u - 1) : c[k] \notin Mentions("}")}
        mods == {m \in 1..Len(c) : c[m] = "mod_x_{" /\ reach(m) # {}}
    IN  IF mods = {} THEN 0
        ELSE LET m == CHOOSE x \in mods : \A y \in mods : x <= y
             IN  CHOOSE u \in reach(m) : \A v \in reach(m) : u <= v

\* number of `.with_input(...)` in a row from position i
RECURSIVE InputsFrom(_, _)
InputsFrom(c, i) ==
    IF i <= Len(c) /\ c[i] = ".with_input()" THEN 1 + InputsFrom(c, i + 1) ELSE 0

\* pattern1 / pattern2: `let harness = ProjectTestHarness::from_fixture(..)`, any
\* number of .with_input(..), and then either (tail = the execute_runbook
\* statement, an optional ';' before it) or (tail = <<>>, a ';' required)
RECURSIVE SubHarness(_, _, _, _, _)
SubHarness(c, i, tail, head, rest) ==
    IF i > Len(c) THEN <<>>
    ELSE LET n == InputsFrom(c, i + 2)
             j == i + 2 + n
             semi == j <= Len(c) /\ c[j] = ";"
             t == IF tail = <<>> THEN (IF semi THEN j + 1 ELSE 0)
                  ELSE IF semi /\ MatchAt(c, j + 1, tail) THEN j + 1 + Len(tail)
                  ELSE IF MatchAt(c, j, tail) THEN j + Len(tail)
                  ELSE 0
         IN  IF MatchAt(c, i, <<"let_harness=", "ProjectTestHarness::from_fixture">>) /\ t # 0
             THEN head \o SubSeq(c, i + 2, j - 1) \o rest
                       \o SubHarness(c, t, tail, head, rest)
             ELSE <<c[i]>> \o SubHarness(c, i + 1, tail, head, rest)

InsertBefore(c, p, t) == SubSeq(c, 1, p - 1) \o <<t>> \o SubSeq(c, p, Len(c))

\* "Replace imports"
V2ReplaceImports(c) == Sub(c, <<"use_ProjectTestHarness">>, <<"use_MigrationHelper">>)

\* "Add tokio import if needed"
V2InsertTokioAt(c, p) == IF p # 0 THEN InsertBefore(c, p, "use_tokio") ELSE c
V2AddTokio(c) ==
    IF InText(c, "#[test]") /\ ~InText(c, "use tokio;")
    THEN V2InsertTokioAt(c, FirstUseInMod(c))
    ELSE c

\* "Convert test functions to async tokio tests"
V2AsyncTests(c) == Sub(c, <<"#[test]_fn">>, <<"#[tokio::test]_async_fn">>)

\* "Pattern 1: Simple harness creation and execution"
V2Pattern1(c) ==
    SubHarness(c, 1,
        <<"let_result=", "harness.execute_runbook()", ".expect()", ";">>,
        <<"let_result=", "MigrationHelper::from_fixture">>,
        <<".execute()", ".await", ".expect()", ";">>)

\* "Pattern 2: Harness with separate execution"
V2Pattern2(c) ==
    SubHarness(c, 1, <<>>, <<"let_harness=", "MigrationHelper::from_fixture">>, <<";">>)

\* "Convert harness.execute_runbook() calls"
V2ExecuteRunbook(c) ==
    Sub(c, <<"harness.execute_runbook()">>, <<"harness", ".execute()", ".await">>)

\* "Handle results that need renaming": the replacement is the matched text
V2RenameResult(c) ==
    Sub(c, <<"let_result=", "harness", ".execute()", ".await">>,
           <<"let_result=", "harness", ".execute()", ".await">>)

\* "Clean up any Value import issues"
V2ValueImport(c) ==
    IF InText(c, "Value") /\ ~InText(c, "txtx_addon_kit::types::types::Value")
    THEN Sub(c, <<"use_MigrationHelper">>, <<"use_MigrationHelper", "use_Value">>)
    ELSE c

\* the substitutions of convert_test_file (v2), in the order of the source
ConvertV2Body(c) ==
    V2ValueImport(V2RenameResult(V2ExecuteRunbook(V2Pattern2(V2Pattern1(V2AsyncTests(V2AddTokio(V2ReplaceImports(c))))))))

\* "Only write if we made changes"
ConvertedIfChanged(c, out) ==
    IF out # c THEN Result(out, TRUE, TRUE, "converted")
    ELSE Result(c, FALSE, FALSE, "no_changes")

\* convert_test_file of convert_tests_v2.py
ConvertV2(name, c) ==
    IF IsDenylisted(name) THEN Result(c, FALSE, FALSE, "skipping")
    ELSE IF InText(c, "MigrationHelper") /\ InText(c, ".execute()") /\ InText(c, ".await")
    THEN Result(c, FALSE, FALSE, "already_converted")
    ELSE ConvertedIfChanged(c, ConvertV2Body(c))

(* ---- fix_compilation_errors.py ---- *)

\* re.sub for a pattern with an optional token: the alternatives of pats are
\* tried in order at each position
RECURSIVE ReSubAny(_, _, _, _)
ReSubAny(c, i, pats, rep) ==
    IF i > Len(c) THEN <<>>
    ELSE LET hits == {k \in 1..Len(pats) : MatchAt(c, i, pats[k])}
         IN  IF hits # {}
             THEN LET k == CHOOSE x \in hits : \A y \in hits : x <= y
                  IN  rep \o ReSubAny(c, i + Len(pats[k]), pats, rep)
             ELSE <<c[i]>> \o ReSubAny(c, i + 1, pats, rep)

\* the first position at or after i where `.expect(..)` stands right before ';',
\* 0 when there is none
RECURSIVE FirstExpectSemi(_, _)
FirstExpectSemi(c, i) ==
    IF i > Len(c) THEN 0
    ELSE IF MatchAt(c, i, <<".expect()", ";">>) THEN i ELSE FirstExpectSemi(c, i + 1)

\* re.sub(r'<start>(.*?)\.expect\([^)]+\);', r'<new>\1.expect(..);', DOTALL): the
\* statement from start to the nearest `.expect(..);` gets new for start
RECURSIVE SubStatement(_, _, _, _)
SubStatement(c, i, start, new) ==
    IF i > Len(c) THEN <<>>
    ELSE LET j == IF MatchAt(c, i, start) THEN FirstExpectSemi(c, i + Len(start)) ELSE 0
         IN  IF j # 0
             THEN new \o SubSeq(c, i + Len(start), j + 1) \o SubStatement(c, j + 2, start, new)
             ELSE <<c[i]>> \o SubStatement(c, i + 1, start, new)

\* "Fix pattern: let harness = MigrationHelper -> let result = MigrationHelper"
FcHarnessToResult(c) ==
    IF /\ HasSeq(c, <<"let_harness=", "MigrationHelper::from_fixture">>)
       /\ InText(c, "assert!(result.")
    THEN Sub(c, <<"let_harness=", "MigrationHelper::from_fixture">>,
                <<"let_result=", "MigrationHelper::from_fixture">>)
    ELSE c

\* let x_result = x_result.execute().await
DupExecute(x) == <<"let_" \o x \o "_result=", x \o "_result", ".execute()", ".await">>

\* "Fix pattern: duplicate .execute().await calls"
FcDuplicateExecute(c) ==
    ReSubAny(c, 1,
        << <<".execute()", ".await", ".expect()", ";">> \o DupExecute("deploy"),
           <<".execute()", ".await", ".expect()">> \o DupExecute("deploy"),
           <<".execute()", ".await", ".expect()", ";">> \o DupExecute("call"),
           <<".execute()", ".await", ".expect()">> \o DupExecute("call") >>,
        <<".execute()", ".await">>)

\* "Fix pattern: ProjectTestHarness -> MigrationHelper"
FcFromFixture(c) ==
    Sub(c, <<"ProjectTestHarness::from_fixture">>, <<"MigrationHelper::from_fixture">>)

\* "Remove mut from MigrationHelper declarations"
FcUnmut(c, x) ==
    Sub(c, <<"let_mut_" \o x \o "=", "MigrationHelper::from_fixture">>,
           <<"let_" \o x \o "=", "MigrationHelper::from_fixture">>)
FcRemoveMut(c) ==
    FcUnmut(FcUnmut(FcUnmut(c, "harness"), "deploy_harness"), "call_harness")

\* "Fix pattern: harness.execute() -> result variable assignment"
FcResultAssignment(c) ==
    IF InText(c, "let harness = ") /\ InText(c, "result.success")
    THEN SubStatement(c, 1, <<"let_harness=">>, <<"let_result=">>)
    ELSE c

\* "Fix deploy_harness -> deploy_result pattern" and "Fix call_harness ->
\* call_result pattern"
FcHarnessResult(c, x) ==
    SubStatement(c, 1,
        <<"let_mut_" \o x \o "_harness=", "MigrationHelper::from_fixture">>,
        <<"let_" \o x \o "_result=", "MigrationHelper::from_fixture">>)

\* "Remove duplicate execution patterns"
FcRemoveDuplicate(c) ==
    Sub(Sub(c, DupExecute("deploy"), <<"//_execution_already_done_above">>), DupExecute("call"), <<"//_execution_already_done_above">>)

\* the substitutions of fix_file (fix_compilation_errors.py), in source order
FixCompilationBody(c) ==
    FcRemoveDuplicate(FcHarnessResult(FcHarnessResult(FcResultAssignment(FcRemoveMut(FcFromFixture(FcDuplicateExecute(FcHarnessToResult(c))))), "deploy"), "call"))

\* the tail both fix_file functions share: write only when the content changed
WriteIfChanged(c, out) ==
    IF out # c THEN Result(out, TRUE, TRUE, "fixed") ELSE Result(c, FALSE, FALSE, "no_changes")

\* fix_file of fix_compilation_errors.py
FixCompilation(name, c) == WriteIfChanged(c, FixCompilationBody(c))

(* ---- fix_remaining_tests.py ---- *)

files_to_fix ==
    {"check_confirmations_tests.rs", "basic_execution_test.rs",
     "contract_interaction_tests.rs", "debug_unsupervised_test.rs",
     "error_handling_tests.rs", "test_confirmations_issue.rs",
     "test_state_reading.rs", "test_structured_logs.rs"}

\* "Special pattern for new_with_content": the import, the new_with_content
\* statement, the setup() call and the path references
FrNewImports(c) ==
    Sub(Sub(c, <<"use_ProjectTestHarness">>, <<"use_FixtureBuilder">>), <<"use_test_harness_other">>, <<"use_FixtureBuilder">>)
FrNewWithContent(c) ==
    Sub(c, <<"let_harness=", "ProjectTestHarness::new_with_content", ".with_anvil()", ";">>,
           <<"let_fixture=", "FixtureBuilder::new", ".with_runbook()", ".build()",
             ".await", ".expect()", ";">>)
FrSetup(c) ==
    Sub(c, <<"harness", ".setup()", ".expect()", ";">>, <<"//_project_already_set_up">>)
FrProjectPath(c) == Sub(c, <<"harness.project_path">>, <<"fixture.project_dir">>)
NewWithContentBody(c) ==
    IF InText(c, "ProjectTestHarness::new_with_content")
    THEN FrProjectPath(FrSetup(FrNewWithContent(FrNewImports(c))))
    ELSE c

\* "Remove any remaining ProjectTestHarness imports"
FrRemoveImports(c) == Sub(c, <<"use_ProjectTestHarness">>, <<>>)

\* "If MigrationHelper not imported, add it"
FrAddImport(c) ==
    IF ~InText(c, "use crate::tests::fixture_builder")
    THEN Sub(c, <<"mod_x_{">>, <<"mod_x_{", "use_MigrationHelper">>)
    ELSE c

\* "Pattern: ProjectTestHarness::from_fixture(&fixture_path)"
FrFromFixture(c) ==
    Sub(c, <<"ProjectTestHarness::from_fixture">>, <<"MigrationHelper::from_fixture">>)

\* "Pattern: mut harness ="
FrRemoveMut(c) ==
    Sub(c, <<"let_mut_harness=", "MigrationHelper::from_fixture">>,
           <<"let_harness=", "MigrationHelper::from_fixture">>)

\* "Pattern: .with_anvil() - remove it"
FrRemoveAnvil(c) == Sub(c, <<".with_anvil()">>, <<>>)

\* "Fix execute patterns - should be .execute().await"
FrJoinExecute(c) ==
    Sub(c, <<"let_result=", "harness_nl.execute()_nl.await">>,
           <<"let_result=", "harness", ".execute()", ".await">>)

\* the substitutions of fix_file (fix_remaining_tests.py), in source order
FixRemainingBody(c) ==
    NewWithContentBody(FrJoinExecute(FrRemoveAnvil(FrRemoveMut(FrFromFixture(FrAddImport(FrRemoveImports(c)))))))

\* fix_file of fix_remaining_tests.py
FixRemaining(name, c) == WriteIfChanged(c, FixRemainingBody(c))

(* ---- the four main() drivers over the directory ---- *)

Drivers == {"convert_tests", "convert_tests_v2", "fix_compilation_errors",
            "fix_remaining_tests"}
Converters == {"convert_tests", "convert_tests_v2"}

\* the files main() hands to the per-file function
Enumerated(d, dir) ==
    CASE d \in Converters -> DOMAIN dir
      [] d = "fix_compilation_errors" -> {f \in DOMAIN dir : ~IsDenylisted(f)}
      [] d = "fix_remaining_tests" -> files_to_fix \cap DOMAIN dir

PerFile(d, name, c) ==
    CASE d = "convert_tests" -> ConvertV1(name, c)
      [] d = "convert_tests_v2" -> ConvertV2(name, c)
      [] d = "fix_compilation_errors" -> FixCompilation(name, c)
      [] d = "fix_remaining_tests" -> FixRemaining(name, c)

\* main() with the else branch lost: no file is counted as skipped
SummariseSkipsUncounted(d, rets) ==
    LET yes == Cardinality({f \in DOMAIN rets : rets[f]})
    IN  IF d \in Converters THEN [converted |-> yes, skipped |-> 0]
        ELSE [fixed |-> yes]

\* the counters of main(): one is incremented per enumerated file
Summarise(d, rets) ==
    LET yes == Cardinality({f \in DOMAIN rets : rets[f]})
        no  == Cardinality({f \in DOMAIN rets : ~rets[f]})
    IN  IF d \in Converters THEN [converted |-> yes, skipped |-> no]
        ELSE [fixed |-> yes]

(* Input directories: up to MaxFiles of the names below, each file with     *)
(* one of the contents below.                                               *)
InputNames == {"mod.rs", "anvil_harness.rs", "basic_execution_test.rs", "deploy_tests.rs"}
NoPattern == <<"fn_helper">>
ThreeTests == <<"#[test]_fn", "#[test]_fn", "#[test]_fn">>
OldTest ==
    <<"mod_x_{", "use_ProjectTestHarness", "use_PathBuf", "#[test]_fn",
      "let_harness=", "ProjectTestHarness::from_fixture", ".with_input()", ";",
      "let_result=", "harness.execute_runbook()", ".expect()", ";",
      "assert!(result.success)", "Value::integer", "}">>
Migrated ==
    <<"mod_x_{", "use_MigrationHelper", "#[tokio::test]_async_fn",
      "let_mut_harness=", "MigrationHelper::from_fixture", ";",
      "let_result=", "harness", ".execute()", ".await", ".expect()", ";",
      "assert!(result.success)", "}">>
InlineContent ==
    <<"use_test_harness_other", "let_harness=", "ProjectTestHarness::new_with_content",
      ".with_anvil()", ";", "harness", ".setup()", ".expect()", ";",
      "harness.project_path", "let_result=", "harness_nl.execute()_nl.await">>
InputContents == {NoPattern, ThreeTests, OldTest, Migrated, InlineContent}
InputDirs ==
    UNION {[D -> InputContents] : D \in {S \in SUBSET InputNames : S # {} /\ Cardinality(S) <= MaxFiles}}

TestStart(dir) ==
    /\ files = dir
    /\ tPrev = dir
    /\ tWrote = {}
    /\ outcome = [f \in DOMAIN dir |-> "none"]
    /\ lastDriver = "none"
    /\ summary = [converted |-> 0, skipped |-> 0]
    /\ transformedBy = [f \in DOMAIN dir |-> {}]
    /\ runs = 0

\* the loop of main(): the per-file function called once on each file of todo
RECURSIVE ForEachFile(_, _, _)
ForEachFile(d, dir, todo) ==
    IF todo = {} THEN <<>>
    ELSE LET f == CHOOSE x \in todo : TRUE
         IN  (f :> PerFile(d, f, dir[f])) @@ ForEachFile(d, dir, todo \ {f})

\* one run of main() of driver d over the directory dir: the new directory, the
\* files written, the status line per file and the summary counters
RunMain(d, dir) ==
    LET todo == Enumerated(d, dir)
        res  == ForEachFile(d, dir, todo)
    IN  [files   |-> [f \in DOMAIN dir |-> IF f \in todo THEN res[f].content ELSE dir[f]],
         wrote   |-> {f \in todo : res[f].wrote},
         lines   |-> [f \in DOMAIN dir |-> IF f \in todo THEN res[f].line ELSE "not_processed"],
         summary |-> Summarise(d, [f \in todo |-> res[f].ret])]

\* the driver of the last run, if that run changed and wrote file f
ChangedByLast(f) ==
    IF lastDriver # "none" /\ f \in tWrote /\ files[f] # tPrev[f] THEN {lastDriver} ELSE {}

RunConvertTests ==
    /\ runs < MaxRuns
    /\ LET r == RunMain("convert_tests", files)
       IN  /\ files' = r.files
           /\ tWrote' = r.wrote
           /\ outcome' = r.lines
           /\ summary' = r.summary
    /\ tPrev' = files
    /\ lastDriver' = "convert_tests"
    /\ transformedBy' = [f \in DOMAIN files |-> transformedBy[f] \cup ChangedByLast(f)]
    /\ runs' = runs + 1
    /\ UNCHANGED <<abiVars, rbVars>>

RunConvertTestsV2 ==
    /\ runs < MaxRuns
    /\ LET r == RunMain("convert_tests_v2", files)
       IN  /\ files' = r.files
           /\ tWrote' = r.wrote
           /\ outcome' = r.lines
           /\ summary' = r.summary
    /\ tPrev' = files
    /\ lastDriver' = "convert_tests_v2"
    /\ transformedBy' = [f \in DOMAIN files |-> transformedBy[f] \cup ChangedByLast(f)]
    /\ runs' = runs + 1
    /\ UNCHANGED <<abiVars, rbVars>>

RunFixCompilationErrors ==
    /\ runs < MaxRuns
    /\ LET r == RunMain("fix_compilation_errors", files)
       IN  /\ files' = r.files
           /\ tWrote' = r.wrote
           /\ outcome' = r.lines
           /\ summary' = r.summary
    /\ tPrev' = files
    /\ lastDriver' = "fix_compilation_errors"
    /\ transformedBy' = [f \in DOMAIN files |-> transformedBy[f] \cup ChangedByLast(f)]
    /\ runs' = runs + 1
    /\ UNCHANGED <<abiVars, rbVars>>

RunFixRemainingTests ==
    /\ runs < MaxRuns
    /\ LET r == RunMain("fix_remaining_tests", files)
       IN  /\ files' = r.files
           /\ tWrote' = r.wrote
           /\ outcome' = r.lines
           /\ summary' = r.summary
    /\ tPrev' = files
    /\ lastDriver' = "fix_remaining_tests"
    /\ transformedBy' = [f \in DOMAIN files |-> transformedBy[f] \cup ChangedByLast(f)]
    /\ runs' = runs + 1
    /\ UNCHANGED <<abiVars, rbVars>>

----------------------------------------------------------------------------
(* Specifications: one per script family, over the files it is given.      *)

EmptyDir == [f \in {} |-> <<>>]

InitAbi == (\E f \in InputFiles : AbiStart(f)) /\ RbStart(<<>>) /\ TestStart(EmptyDir)
NextAbi == AddMissingAbi
SpecAbi == InitAbi /\ [][NextAbi]_vars

InitRunbook ==
    AbiStart(<<>>) /\ (\E f \in InputRunbooks : RbStart(f)) /\ TestStart(EmptyDir)
NextRunbook == FixRunbookFile
SpecRunbook == InitRunbook /\ [][NextRunbook]_vars

InitTests == AbiStart(<<>>) /\ RbStart(<<>>) /\ (\E dir \in InputDirs : TestStart(dir))
NextTests ==
    \/ RunConvertTests
    \/ RunConvertTestsV2
    \/ RunFixCompilationErrors
    \/ RunFixRemainingTests
SpecTests == InitTests /\ [][NextTests]_vars

----------------------------------------------------------------------------
(* Properties of add_missing_abi *)

\* Running brace depth from the header line h to line j, each line counted once.
RECURSIVE DepthAt(_, _, _)
DepthAt(ls, h, j) ==
    IF j < h THEN 0 ELSE DepthAt(ls, h, j - 1) + ls[j].ob - ls[j].cb

\* The first line at or after h where the depth is back to zero after having been
\* positive; 0 when there is no such line.
BlockEndByDepth(ls, h) ==
    LET ends == {j \in h..Len(ls) :
                    /\ DepthAt(ls, h, j) = 0
                    /\ \E k \in h..j : DepthAt(ls, h, k) > 0}
    IN  IF ends = {} THEN 0 ELSE CHOOSE j \in ends : \A k \in ends : j <= k

HeadersOf(ls) == {h \in 1..Len(ls) : ls[h].hdr}

\* C3: add_missing_abi is idempotent: the second call on a file inserts no line,
\* returns False and does not write.
C3_SecondCallNoOp ==
    abiCalls = 2 => (lines = abiPrev /\ abiRet = FALSE /\ abiWrote = FALSE)

\* C6: in a file with one call_contract header whose block lacks contract_abi and
\* holds a contract_address line, one call inserts exactly one contract_abi line,
\* directly after the first anchor line, with the anchor's indentation, and leaves
\* every original line as it was and in order.
C6_AnchorFidelity ==
    (abiCalls = 1 /\ Cardinality(HeadersOf(abiPrev)) = 1) =>
        LET h == CHOOSE x \in HeadersOf(abiPrev) : TRUE
            e == BlockEndByDepth(abiPrev, h)
            anchors == {a \in h..e : abiPrev[a].addr}
        IN  (e # 0 /\ ~TextHasAbi(abiPrev, h, e) /\ anchors # {}) =>
                LET a == CHOOSE x \in anchors : \A y \in anchors : x <= y
                IN  /\ Len(lines) = Len(abiPrev) + 1
                    /\ lines[a + 1].abi
                    /\ lines[a + 1].ind = abiPrev[a].ind
                    /\ lines = InsertAt(abiPrev, a + 1, lines[a + 1])

\* The contract_abi value the priority order getValue, setValue, transfer,
\* action.deploy gives for the text of lines s..e, generic when none is present.
ExpectedAbiKind(ls, s, e) ==
    LET has(m) == \E k \in s..e : m \in ls[k].marks
    IN  CASE has("getValue")      -> "abi_getValue"
          [] ~has("getValue") /\ has("setValue") -> "abi_setValue"
          [] ~has("getValue") /\ ~has("setValue") /\ has("transfer") -> "abi_transfer"
          [] ~has("getValue") /\ ~has("setValue") /\ ~has("transfer")
                /\ has("action.deploy") -> "abi_deploy"
          [] OTHER -> "abi_generic"

\* C7: every contract_abi line a call inserts carries the value of the first
\* marker, in the order getValue, setValue, transfer, action.deploy, that the
\* block text holds, and the generic expression when it holds none.
C7_FallbackPriority ==
    \A n \in 1..Len(scanLog) :
        scanLog[n].anchor # 0 =>
            lines[scanLog[n].anchor + 1].txt
                = ExpectedAbiKind(scanLog[n].at, scanLog[n].start, scanLog[n].end)

\* C7 witness: a block holding both getValue and setValue got the getValue ABI.
C7_Witness ==
    \E n \in 1..Len(scanLog) :
        /\ scanLog[n].anchor # 0
        /\ TextHas(scanLog[n].at, scanLog[n].start, scanLog[n].end, "getValue")
        /\ TextHas(scanLog[n].at, scanLog[n].start, scanLog[n].end, "setValue")
        /\ lines[scanLog[n].anchor + 1].txt = "abi_getValue"

\* C10: for every header a call handles, the block end it finds is the first line
\* at which the running brace depth, each line counted once from the header, is
\* back to zero after having been positive.
C10_BlockExtent ==
    \A n \in 1..Len(scanLog) :
        LET e == BlockEndByDepth(scanLog[n].at, scanLog[n].start)
        IN  e # 0 => scanLog[n].end = e

\* C10 restricted to headers that carry their opening brace.
BlockExtentBraceOnHeader ==
    \A n \in 1..Len(scanLog) :
        LET e == BlockEndByDepth(scanLog[n].at, scanLog[n].start)
        IN  (e # 0 /\ scanLog[n].at[scanLog[n].start].ob > 0) => scanLog[n].end = e

\* The headers a call found malformed: the brace depth counted from the header,
\* each line once, is never back at zero after having been positive.
Unterminated(n) == BlockEndByDepth(scanLog[n].at, scanLog[n].start) = 0

\* The first header line of ls after line s, 0 when there is none.
NextHeader(ls, s) ==
    LET later == {h \in HeadersOf(ls) : h > s}
    IN  IF later = {} THEN 0 ELSE CHOOSE h \in later : \A k \in later : h <= k

\* C11: for a header whose brace depth never returns to zero before the end of
\* the file, no block is identified (block_end stays on the header line), no line
\* is inserted, no index past the last line is used, and the scan goes on with
\* the next header line of the file.
C11_UnterminatedIsNoMatch ==
    \A n \in 1..Len(scanLog) :
        Unterminated(n) =>
            /\ scanLog[n].end = scanLog[n].start
            /\ scanLog[n].anchor = 0
            /\ scanLog[n].end <= Len(scanLog[n].at)
            /\ NextHeader(scanLog[n].at, scanLog[n].start) # 0 =>
                  /\ n < Len(scanLog)
                  /\ scanLog[n + 1].at = scanLog[n].at
                  /\ scanLog[n + 1].start = NextHeader(scanLog[n].at, scanLog[n].start)

\* C11 restricted to headers that carry their opening brace.
UnterminatedBraceOnHeader ==
    \A n \in 1..Len(scanLog) :
        (Unterminated(n) /\ scanLog[n].at[scanLog[n].start].ob > 0) =>
            /\ scanLog[n].end = scanLog[n].start
            /\ scanLog[n].anchor = 0
            /\ NextHeader(scanLog[n].at, scanLog[n].start) # 0 =>
                  /\ n < Len(scanLog)
                  /\ scanLog[n + 1].at = scanLog[n].at
                  /\ scanLog[n + 1].start = NextHeader(scanLog[n].at, scanLog[n].start)

\* An unterminated header with its brace was followed by a header whose block
\* got its contract_abi line.
UnterminatedThenInserted ==
    \E n \in 1..Len(scanLog) :
        /\ Unterminated(n)
        /\ scanLog[n].at[scanLog[n].start].ob > 0
        /\ n < Len(scanLog)
        /\ scanLog[n + 1].anchor # 0

----------------------------------------------------------------------------
(* Properties of fix_runbook_file *)

\* C2: fix_runbook_file is idempotent: the second call on a runbook leaves the
\* content as the first call left it, returns False and does not write.
C2_SecondRunNoOp ==
    rbCalls = 2 => (content = rbPrev /\ rbRet = FALSE /\ rbWrote = FALSE)

\* The positions of the action headers of a text, in order.
HeaderIdx(toks) ==
    SelectSeq([i \in 1..Len(toks) |-> i], LAMBDA i : toks[i].k = "hdr")

\* The text from the k-th action header up to the next header (the k-th block).
SegmentOf(toks, k) ==
    LET hs == HeaderIdx(toks)
    IN  SubSeq(toks, hs[k], IF k < Len(hs) THEN hs[k + 1] - 1 ELSE Len(toks))

HasField(toks, name) == \E i \in 1..Len(toks) : toks[i] = Field(name)

\* C5: the substitution of the rules of action type X leaves every block whose
\* header does not declare evm::X exactly as it was.
C5_BlockIsolation ==
    \A n \in 1..Len(subLog) :
        LET e == subLog[n]
        IN  /\ Len(HeaderIdx(e.after)) = Len(HeaderIdx(e.before))
            /\ \A k \in 1..Len(HeaderIdx(e.before)) :
                  SegmentOf(e.before, k)[1] # Hdr("evm", e.ty) =>
                      SegmentOf(e.after, k) = SegmentOf(e.before, k)

\* C5 witness: a block of type X and a block of another type hold the same field
\* that a rule of X matches; the rules of X changed the X block and not the other.
C5_Witness ==
    \E n \in 1..Len(subLog) :
        LET e == subLog[n]
        IN  \E k1, k2 \in 1..Len(HeaderIdx(e.before)) :
              \E r \in 1..Len(FIELD_REPLACEMENTS[e.ty]) :
                /\ SegmentOf(e.before, k1)[1] = Hdr("evm", e.ty)
                /\ SegmentOf(e.before, k2)[1] # Hdr("evm", e.ty)
                /\ HasField(SegmentOf(e.before, k1), FIELD_REPLACEMENTS[e.ty][r].pat)
                /\ HasField(SegmentOf(e.before, k2), FIELD_REPLACEMENTS[e.ty][r].pat)
                /\ SegmentOf(e.after, k1) # SegmentOf(e.before, k1)
                /\ SegmentOf(e.after, k2) = SegmentOf(e.before, k2)

\* Whether the k-th block of toks is an evm action with a rule set.
IsEvmRuleBlock(toks, k) ==
    LET h == SegmentOf(toks, k)[1]
    IN  h.a = "evm" /\ h.b \in DOMAIN FIELD_REPLACEMENTS

\* The rule set of the block's action type applied once, in table order, to the
\* block's own text.
RulesOnce(block) == ApplyRules(block, FIELD_REPLACEMENTS[block[1].b], 1)

\* The number of blocks of toks with the header of the k-th.
SameTypeCount(toks, k) ==
    Cardinality({j \in 1..Len(HeaderIdx(toks)) :
                    SegmentOf(toks, j)[1] = SegmentOf(toks, k)[1]})

\* C12: after one call of fix_runbook_file every evm action block holds its own
\* text with the rule set of its action type applied exactly once, however many
\* actions of that type the file has.
C12_RulesAppliedOnce ==
    rbCalls = 1 =>
        /\ Len(HeaderIdx(content)) = Len(HeaderIdx(rbPrev))
        /\ \A k \in 1..Len(HeaderIdx(rbPrev)) :
              IsEvmRuleBlock(rbPrev, k) =>
                  SegmentOf(content, k) = RulesOnce(SegmentOf(rbPrev, k))

\* C12 restricted to blocks whose action type occurs once in the file.
RulesAppliedOnceSingleType ==
    rbCalls = 1 =>
        \A k \in 1..Len(HeaderIdx(rbPrev)) :
            (IsEvmRuleBlock(rbPrev, k) /\ SameTypeCount(rbPrev, k) = 1) =>
                SegmentOf(content, k) = RulesOnce(SegmentOf(rbPrev, k))

\* C12 restricted to blocks without the field `from`.
RulesAppliedOnceNoFrom ==
    rbCalls = 1 =>
        \A k \in 1..Len(HeaderIdx(rbPrev)) :
            (IsEvmRuleBlock(rbPrev, k) /\ ~HasField(SegmentOf(rbPrev, k), "from")) =>
                SegmentOf(content, k) = RulesOnce(SegmentOf(rbPrev, k))

\* A file with two actions of one type, each changed by the rules of the type as
\* one application changes it.
TwoOfOneTypeRewritten ==
    /\ rbCalls = 1
    /\ \E k1, k2 \in 1..Len(HeaderIdx(rbPrev)) :
          /\ k1 # k2
          /\ IsEvmRuleBlock(rbPrev, k1)
          /\ SegmentOf(rbPrev, k1)[1] = SegmentOf(rbPrev, k2)[1]
          /\ \A k \in {k1, k2} :
                /\ SegmentOf(content, k) # SegmentOf(rbPrev, k)
                /\ SegmentOf(content, k) = RulesOnce(SegmentOf(rbPrev, k))

----------------------------------------------------------------------------
(* Properties of the test-migration drivers *)

\* C1: a per-file operation whose transformation leaves the content as it was
\* read performs no write: every file the last run wrote has changed content.
C1_WriteSuppression ==
    \A f \in tWrote : files[f] # tPrev[f]

\* C4: once a converter has transformed and written a file, no later run of the
\* same converter writes that file again.
C4_NoSecondConversion ==
    lastDriver \in Converters => \A f \in tWrote : lastDriver \notin transformedBy[f]

\* C8: no run of any of the four drivers writes mod.rs or anvil_harness.rs.
C8_DenylistNeverWritten ==
    tWrote \cap {"mod.rs", "anvil_harness.rs"} = {}

\* C8 witness: two runs over a directory whose mod.rs holds ProjectTestHarness
\* patterns and whose anvil_harness.rs already holds MigrationHelper, the last
\* run having written some other file.
C8_Witness ==
    /\ runs = 2
    /\ {"mod.rs", "anvil_harness.rs"} \subseteq DOMAIN files
    /\ files["mod.rs"] = OldTest
    /\ files["anvil_harness.rs"] = Migrated
    /\ tWrote # {}

\* number of files for which the last run printed status line o
Printed(o) == Cardinality({f \in DOMAIN files : outcome[f] = o})

\* a directory of three files: one skipped as already converted, one skipped as
\* denylisted, and one holding three replaceable occurrences
ExampleRun ==
    /\ Cardinality(DOMAIN files) = 3
    /\ Printed("already_converted") = 1
    /\ Printed("skipping") = 1
    /\ \E f \in DOMAIN files : tPrev[f] = ThreeTests /\ outcome[f] = "converted"

\* C9 as stated: the summary of a converter run holds one count per outcome
\* (changed, unchanged, skipped-denylisted, skipped-already-migrated), and for the
\* example directory it is {changed: 1, skipped-denylisted: 1,
\* skipped-already-migrated: 1}.
C9_CountPerOutcome ==
    lastDriver \in Converters =>
        /\ DOMAIN summary =
              {"changed", "unchanged", "skipped_denylisted", "skipped_already_migrated"}
        /\ summary["changed"] = Printed("converted")
        /\ summary["unchanged"] = Printed("no_changes")
        /\ summary["skipped_denylisted"] = Printed("skipping")
        /\ summary["skipped_already_migrated"] = Printed("already_converted")

\* C9 amended: every enumerated file gets exactly one of the four status lines;
\* the summary holds two counts, converted (the files reported converted) and
\* skipped (all the others), which sum to the number of enumerated files; for the
\* example directory the summary is {converted: 1, skipped: 2}.
C9_ConvertedAndSkipped ==
    lastDriver \in Converters =>
        /\ \A f \in DOMAIN files :
              outcome[f] \in {"converted", "no_changes", "skipping", "already_converted"}
        /\ DOMAIN summary = {"converted", "skipped"}
        /\ summary.converted = Printed("converted")
        /\ summary.skipped =
              Printed("no_changes") + Printed("skipping") + Printed("already_converted")
        /\ summary.converted + summary.skipped = Cardinality(DOMAIN files)
        /\ ExampleRun => (summary.converted = 1 /\ summary.skipped = 2)

\* C9 witness: a converter has run over the example directory and reported one
\* file converted and two skipped.
C9_Witness ==
    /\ lastDriver \in Converters
    /\ ExampleRun
    /\ summary.converted = 1
    /\ summary.skipped = 2

====
